---- MODULE Spec2Model ----
(***************************************************************************)
(* Document access control and collaboration events of doc-backend         *)
(* (src/routes/documents.js, src/routes/notifications.js).                 *)
(*                                                                         *)
(* Every route handler is an async function: it runs atomically between    *)
(* two awaits and may be interleaved with other requests at each await.    *)
(* A request slot p models one in-flight request: pc[p] is the await it is *)
(* suspended at, snap[p] the Mongoose document it holds in memory.         *)
(*                                                                         *)
(* document.save() sends only the paths modified in memory (Mongoose):     *)
(*   array push          -> $push, __v incremented, no version check;     *)
(*   array element field -> $set by position, checked against __v;        *)
(*   array replaced      -> $set of the array, checked against __v and    *)
(*                          __v incremented;                               *)
(*   scalar field        -> $set, no version check.                       *)
(* A failed version check throws VersionError, which the handlers' catch   *)
(* turns into a 500 response.                                              *)
(***************************************************************************)
EXTENDS Integers, Sequences, FiniteSets, TLC

(***************************************************************************)
(* Bounds and input domains                                                *)
(***************************************************************************)
\* number of requests accepted in one behaviour
MaxOps == 2

\* request slots: the requests that may be in flight at the same time
Procs == {1, 2}

\* the anonymous requester of GET /:id (userId = null)
NULL == "null"

\* the users collection, in natural (insertion) order
UserSeq == <<"alice", "bob", "carol">>

Users == {UserSeq[i] : i \in DOMAIN UserSeq}

\* User.name, as a sequence of characters
UserName(u) ==
  CASE u = "alice" -> <<"A", "l">>
    [] u = "bob"   -> <<"B", "o", " ", "A", "l">>
    [] OTHER       -> <<"C", "a", "l">>

\* User.email
UserEmail(u) ==
  CASE u = "alice" -> "alice@x"
    [] u = "bob"   -> "bob@x"
    [] OTHER       -> "carol@x"

\* emails a share request may carry; "nobody@x" belongs to no user
Emails == {"alice@x", "bob@x", "nobody@x"}

Titles == {"t1", "t2", "t3"}

\* the title of a new document
NewTitle == "t1"

\* document contents, as sequences of characters
Contents == { <<"h", "i">>,
              <<"@", "a", "l", " ", "@", "a", "l">> }

TagLists == { <<>>, <<"x">> }

\* the tags of a new document: the default of the body's tags
NewTags == <<>>

Visibilities == {"public", "private"}

Permissions == {"view", "edit"}

\* the result of a lookup that finds nothing
NoDoc == [id |-> 0]

VARIABLES
  docs,    \* the documents collection: docs[id] is the document with _id = id
  notifs,  \* the notifications collection, in insertion order
  clock,   \* the wall clock, read by new Date() and by the createdAt defaults
  ops,     \* the number of requests accepted so far
  pc,      \* pc[p]: the await request p is suspended at, "idle" for a free slot
  req,     \* req[p]: the request p serves (route, req.user.id, req.params, req.body)
  snap,    \* snap[p]: the document object p holds in memory
  pend,    \* pend[p]: the modification p has made in memory and not yet written
  todo,    \* todo[p]: the mentioned users p has still to process
  res,     \* the HTTP status of the latest response (0: none yet)
  out      \* the history array of the latest response, <<>> when it carries none

vars == <<docs, notifs, clock, ops, pc, req, snap, pend, todo, res, out>>

(***************************************************************************)
(* Helpers                                                                 *)
(***************************************************************************)
\* Document.findById(id)
FindById(id) == IF id \in DOMAIN docs THEN docs[id] ELSE NoDoc

\* ids a request may name: every stored document and one id that is not stored
DocIds == 1..(Len(docs) + 1)

\* User.findOne({ email })
FindByEmail(email) ==
  IF \E u \in Users : UserEmail(u) = email
    THEN CHOOSE u \in Users : UserEmail(u) = email
    ELSE NULL

\* Array.prototype.find over sharedWith: the index of the first entry of
\* user userId, 0 when there is none
FindShare(sharedWith, userId) ==
  IF \E i \in DOMAIN sharedWith : sharedWith[i].user = userId
    THEN CHOOSE i \in DOMAIN sharedWith :
           /\ sharedWith[i].user = userId
           /\ \A j \in 1..(i - 1) : sharedWith[j].user # userId
    ELSE 0

\* the 'i' flag of RegExp
Lower(c) ==
  CASE c = "A" -> "a"
    [] c = "B" -> "b"
    [] c = "C" -> "c"
    [] OTHER   -> c

\* \w of the mention regex
IsWordChar(c) == c \notin {" ", "@"}

\* the end of the maximal run of word characters that starts at i
RECURSIVE RunEnd(_, _)
RunEnd(content, i) ==
  IF i + 1 <= Len(content) /\ IsWordChar(content[i + 1])
    THEN RunEnd(content, i + 1)
    ELSE i

\* the successive matches of /@(\w+)/g from position i on
RECURSIVE ScanMentions(_, _)
ScanMentions(content, i) ==
  IF i > Len(content) THEN <<>>
  ELSE IF content[i] = "@" /\ i + 1 <= Len(content) /\ IsWordChar(content[i + 1])
    THEN LET j == RunEnd(content, i + 1)
         IN  <<SubSeq(content, i + 1, j)>> \o ScanMentions(content, j + 1)
    ELSE ScanMentions(content, i + 1)

\* [...new Set(mentions)]: duplicates removed, first occurrences kept in order
RECURSIVE Dedupe(_)
Dedupe(s) ==
  IF s = <<>> THEN <<>>
  ELSE LET init == Dedupe(SubSeq(s, 1, Len(s) - 1))
           last == s[Len(s)]
       IN  IF \E i \in DOMAIN init : init[i] = last THEN init ELSE Append(init, last)

extractMentions(content) == Dedupe(ScanMentions(content, 1))

\* new RegExp(m, 'i').test(name): m occurs somewhere in name, case ignored
RegExpTest(m, name) ==
  \E i \in 1..(Len(name) - Len(m) + 1) :
    \A k \in 1..Len(m) : Lower(name[i + k - 1]) = Lower(m[k])

\* m.split(' ')[0]
FirstPart(m) ==
  IF \E i \in DOMAIN m : m[i] = " "
    THEN SubSeq(m, 1, (CHOOSE i \in DOMAIN m :
                         m[i] = " " /\ \A j \in 1..(i - 1) : m[j] # " ") - 1)
    ELSE m

\* User.find({ $or: mentions.map(m => ({ name: new RegExp(...) })) })
MentionedUsers(mentions) ==
  SelectSeq(UserSeq,
            LAMBDA u : \E i \in DOMAIN mentions :
                         RegExpTest(FirstPart(mentions[i]), UserName(u)))

\* Document.create({ title, content, author, visibility, tags }): the other
\* fields take the schema's defaults
NewDocument(id, title, content, author, visibility, tags, now) ==
  [ id           |-> id,
    title        |-> title,
    content      |-> content,
    author       |-> author,
    visibility   |-> visibility,
    tags         |-> tags,
    sharedWith   |-> <<>>,
    editHistory  |-> <<>>,
    isDeleted    |-> FALSE,
    lastModified |-> now,
    createdAt    |-> now,
    v            |-> 0 ]

\* Notification.create({ recipient, sender, type, document, message })
NewNotification(recipient, sender, type, document, now) ==
  [ recipient |-> recipient,
    sender    |-> sender,
    type      |-> type,
    document  |-> document,
    isRead    |-> FALSE,
    createdAt |-> now ]

(***************************************************************************)
(* checkDocumentAccess                                                     *)
(***************************************************************************)
\* "Author has full access": a plausible slip is to leave the rule out
IsAuthor_Never(document, userId) == FALSE

\* "Author has full access"
IsAuthor(document, userId) == document.author = userId

\* the public rule without its test of the visibility
IsPublicView_AnyVisibility(document, requiredPermission) ==
  requiredPermission = "view"

\* the public rule without its test of the required permission
IsPublicView_AnyPermission(document, requiredPermission) ==
  document.visibility = "public"

\* "Public documents are viewable by anyone"
IsPublicView(document, requiredPermission) ==
  document.visibility = "public" /\ requiredPermission = "view"

\* userId.toString() of a null userId throws a TypeError: threw is TRUE and
\* nothing is granted
checkDocumentAccess(documentId, userId, requiredPermission) ==
  LET document == FindById(documentId)
      denied   == [hasAccess |-> FALSE, document |-> NoDoc,
                   permission |-> "none", threw |-> FALSE]
  IN  IF document.id = 0 \/ document.isDeleted THEN denied
      ELSE IF userId = NULL
        THEN [denied EXCEPT !.threw = TRUE]
      ELSE IF IsAuthor(document, userId)
        THEN [hasAccess |-> TRUE, document |-> document,
              permission |-> "edit", threw |-> FALSE]
      ELSE IF IsPublicView(document, requiredPermission)
        THEN [hasAccess |-> TRUE, document |-> document,
              permission |-> "view", threw |-> FALSE]
      ELSE LET i == FindShare(document.sharedWith, userId)
           IN  IF i # 0
                 THEN [hasAccess  |-> \/ requiredPermission = "view"
                                      \/ /\ requiredPermission = "edit"
                                         /\ document.sharedWith[i].permission = "edit",
                       document   |-> document,
                       permission |-> document.sharedWith[i].permission,
                       threw      |-> FALSE]
                 ELSE [denied EXCEPT !.document = document]

(***************************************************************************)
(* Initial state: empty collections, no request in flight                  *)
(***************************************************************************)
NoReq == [op |-> "none", user |-> NULL, id |-> 0]

\* the collections are empty, or hold one document left by a completed
\* POST /api/documents of the first user whose content mentions nobody (the
\* state after that Create)
Init ==
  /\ \/ /\ docs = <<>>
        /\ clock = 1
     \/ /\ \E visibility \in Visibilities :
             docs = <<NewDocument(1, NewTitle, <<"h", "i">>, UserSeq[1], visibility,
                                  NewTags, 1)>>
        /\ clock = 2
  /\ notifs = <<>>
  /\ ops = 0
  /\ pc = [p \in Procs |-> "idle"]
  /\ req = [p \in Procs |-> NoReq]
  /\ snap = [p \in Procs |-> NoDoc]
  /\ pend = [p \in Procs |-> <<>>]
  /\ todo = [p \in Procs |-> <<>>]
  /\ res = 0
  /\ out = <<>>

\* one more request is accepted, in the first free slot
Accept(p) ==
  /\ pc[p] = "idle"
  /\ \A q \in Procs : q < p => pc[q] # "idle"
  /\ ops < MaxOps
  /\ ops' = ops + 1

\* request p answers with status and the history array history, and ends: its
\* slot is free again
Respond(p, status, history) ==
  /\ res' = status
  /\ out' = history
  /\ pc' = [pc EXCEPT ![p] = "idle"]
  /\ req' = [req EXCEPT ![p] = NoReq]
  /\ snap' = [snap EXCEPT ![p] = NoDoc]
  /\ pend' = [pend EXCEPT ![p] = <<>>]
  /\ todo' = [todo EXCEPT ![p] = <<>>]

\* request p answers with status, without a history array
Answer(p, status) == Respond(p, status, <<>>)

\* request p suspends at the await named next, holding request r, document
\* document and modification change in memory
Await(p, next, r, document, change) ==
  /\ pc' = [pc EXCEPT ![p] = next]
  /\ req' = [req EXCEPT ![p] = r]
  /\ snap' = [snap EXCEPT ![p] = document]
  /\ pend' = [pend EXCEPT ![p] = change]
  /\ UNCHANGED <<res, out>>

\* request p moves on to the await named next
Goto(p, next) ==
  /\ pc' = [pc EXCEPT ![p] = next]
  /\ UNCHANGED <<req, res, out>>

(***************************************************************************)
(* POST /api/documents                                                     *)
(***************************************************************************)
\* the guard of the mention loop: the acting user is skipped
IsOtherUser(user, actor) == user # actor

\* validation passed; Document.create, extractMentions and User.find (the
\* users collection does not change, so reading it is no point of
\* interleaving); without mentions the handler answers at once.
\* A behaviour holds one document: no handler modelled here reads or writes
\* a second one.
Create(p, user, title, content, visibility, tags) ==
  LET id             == Len(docs) + 1
      document       == NewDocument(id, title, content, user, visibility, tags, clock)
      mentions       == extractMentions(content)
      mentionedUsers == MentionedUsers(mentions)
  IN  /\ Accept(p)
      /\ docs = <<>>
      /\ docs' = Append(docs, document)
      /\ clock' = clock + 1
      /\ IF Len(mentions) > 0
           THEN /\ Await(p, IF mentionedUsers = <<>> THEN "create_save" ELSE "create_loop",
                         [op |-> "create", user |-> user, id |-> id], document, <<>>)
                /\ todo' = [todo EXCEPT ![p] = mentionedUsers]
           ELSE Answer(p, 201)
      /\ UNCHANGED notifs

StartCreate(p) ==
  \E user \in Users, content \in Contents, visibility \in Visibilities :
    Create(p, user, NewTitle, content, visibility, NewTags)

\* Document.create has stored the document and User.find throws: the catch
\* of the handler answers 500
CreateLookupFails(p, user, content, visibility) ==
  /\ Accept(p)
  /\ docs = <<>>
  /\ Len(extractMentions(content)) > 0
  /\ docs' = Append(docs, NewDocument(Len(docs) + 1, NewTitle, content, user,
                                      visibility, NewTags, clock))
  /\ clock' = clock + 1
  /\ Answer(p, 500)
  /\ UNCHANGED notifs

StartCreateLookupFails(p) ==
  \E user \in Users, content \in Contents, visibility \in Visibilities :
    CreateLookupFails(p, user, content, visibility)

\* one iteration of the loop over mentionedUsers: push the view grant in
\* memory, then Notification.create, which succeeds (created) or throws; what
\* it throws is caught and logged inside the loop
CreateIteration(p, created) ==
  /\ pc[p] = "create_loop"
  /\ LET user  == Head(todo[p])
         grant == [user |-> user, permission |-> "view"]
     IN  IF IsOtherUser(user, req[p].user)
           THEN /\ snap' = [snap EXCEPT ![p].sharedWith = Append(@, grant)]
                /\ pend' = [pend EXCEPT ![p] = Append(@, grant)]
                /\ IF created
                     THEN /\ notifs' = Append(notifs,
                                 NewNotification(user, req[p].user, "mention",
                                                 req[p].id, clock))
                          /\ clock' = clock + 1
                     ELSE UNCHANGED <<notifs, clock>>
           ELSE UNCHANGED <<snap, pend, notifs, clock>>
  /\ todo' = [todo EXCEPT ![p] = Tail(@)]
  /\ Goto(p, IF Len(todo[p]) > 1 THEN "create_loop" ELSE "create_save")
  /\ UNCHANGED <<docs, ops>>

CreateLoop(p) == \E created \in BOOLEAN : CreateIteration(p, created)

\* a save that writes none of the pushed grants
CreateSave_DropGrants(p) ==
  /\ pc[p] = "create_save"
  /\ Answer(p, 201)
  /\ UNCHANGED <<docs, notifs, clock, ops>>

\* document.save(): the pushed grants are appended to the stored array; then
\* Document.findById for the response
CreateSave(p) ==
  /\ pc[p] = "create_save"
  /\ docs' = IF pend[p] = <<>> THEN docs
             ELSE [docs EXCEPT ![req[p].id].sharedWith = @ \o pend[p],
                               ![req[p].id].v = @ + 1]
  /\ Answer(p, 201)
  /\ UNCHANGED <<notifs, clock, ops>>

\* document.save() throws: nothing is written and the catch of the handler
\* answers 500
CreateSaveFails(p) ==
  /\ pc[p] = "create_save"
  /\ Answer(p, 500)
  /\ UNCHANGED <<docs, notifs, clock, ops>>

(***************************************************************************)
(* PUT /api/documents/:id                                                  *)
(***************************************************************************)
UpdateFields == {"title", "content", "visibility", "tags"}

\* the values a request body may give to a field
FieldValues(f) ==
  CASE f = "title"      -> Titles
    [] f = "content"    -> Contents
    [] f = "visibility" -> Visibilities
    [] OTHER            -> TagLists

\* a field of a request body: undefined, or one of its values
OptField(f) == {<<>>} \cup {f :> x : x \in FieldValues(f)}

\* request bodies that define at most one field: a field that is not in the
\* domain is undefined
UpdateBodies ==
  { b \in { t @@ c @@ vi @@ ta : t \in OptField("title"), c \in OptField("content"),
                                 vi \in OptField("visibility"), ta \in OptField("tags") } :
      Cardinality(DOMAIN b) <= 1 }

\* request bodies that define any of the fields
AllBodies ==
  { t @@ c @@ vi @@ ta : t \in OptField("title"), c \in OptField("content"),
                         vi \in OptField("visibility"), ta \in OptField("tags") }

\* a diff that records every field of the body, changed or not
ChangedFields_AllPresent(document, body) == DOMAIN body

\* the fields of the body that are defined and differ from the document's
ChangedFields(document, body) ==
  {f \in DOMAIN body : body[f] # document[f]}

\* updateData and changes, computed from the document read by
\* checkDocumentAccess
UpdateData(document, body, user, now) ==
  LET changed == ChangedFields(document, body)
      changes == [f \in changed |->
                    IF f = "content" THEN "Content updated" ELSE body[f]]
  IN  [ set  |-> [f \in changed |-> body[f]],
        push |-> IF changed # {}
                   THEN <<[user |-> user, action |-> "update",
                           changes |-> changes, timestamp |-> now]>>
                   ELSE <<>> ]

\* an update that writes editHistory as a whole: the new entry alone
ApplyUpdate_ReplaceHistory(document, updateData) ==
  [f \in DOMAIN document |->
     IF f \in DOMAIN updateData.set THEN updateData.set[f]
     ELSE IF f = "editHistory" /\ updateData.push # <<>> THEN updateData.push
     ELSE document[f]]

\* what findByIdAndUpdate(id, updateData) makes of the stored document
ApplyUpdate(document, updateData) ==
  [f \in DOMAIN document |->
     IF f \in DOMAIN updateData.set THEN updateData.set[f]
     ELSE IF f = "editHistory" THEN document.editHistory \o updateData.push
     ELSE document[f]]

\* checkDocumentAccess(id, user, "edit"), then the diff against its result
Update(p, user, id, body) ==
  LET access     == checkDocumentAccess(id, user, "edit")
      updateData == UpdateData(access.document, body, user, clock)
  IN  /\ Accept(p)
      /\ IF ~access.hasAccess
           THEN /\ Answer(p, 403)
                /\ UNCHANGED clock
           ELSE /\ Await(p, "update_write",
                         [op |-> "update", user |-> user, id |-> id],
                         access.document, updateData)
                /\ clock' = IF updateData.push # <<>> THEN clock + 1 ELSE clock
                /\ UNCHANGED todo
      /\ UNCHANGED <<docs, notifs>>

StartUpdate(p) ==
  \E user \in Users, id \in DocIds, body \in UpdateBodies : Update(p, user, id, body)

\* an update request with any body
StartUpdateAny(p) ==
  \E user \in Users, id \in DocIds, body \in AllBodies : Update(p, user, id, body)

\* Document.findByIdAndUpdate(id, updateData, { new: true })
UpdateWrite(p) ==
  /\ pc[p] = "update_write"
  /\ docs' = [docs EXCEPT ![req[p].id] = ApplyUpdate(@, pend[p])]
  /\ Answer(p, 200)
  /\ UNCHANGED <<notifs, clock, ops>>

(***************************************************************************)
(* GET /api/documents/:id/history                                          *)
(***************************************************************************)
\* the status the handler answers with
HistoryStatus(document, user) ==
  IF document.id = 0 \/ document.isDeleted THEN 404
  ELSE IF document.author # user THEN 403
  ELSE 200

\* the creation record the handler puts before the stored entries
CreationRecord(document) ==
  [ user      |-> document.author,
    action    |-> "create",
    changes   |-> [ title      |-> document.title,
                    content    |-> "Document created",
                    visibility |-> document.visibility,
                    tags       |-> document.tags ],
    timestamp |-> document.createdAt ]

\* one step of the stable sort: entry goes behind the entries of sorted whose
\* timestamp is not older than its own
InsertNewestFirst(sorted, entry) ==
  LET n == Cardinality({i \in DOMAIN sorted : sorted[i].timestamp >= entry.timestamp})
  IN  SubSeq(sorted, 1, n) \o <<entry>> \o SubSeq(sorted, n + 1, Len(sorted))

\* fullHistory.sort((a, b) => new Date(b.timestamp) - new Date(a.timestamp))
RECURSIVE SortNewestFirst(_)
SortNewestFirst(history) ==
  IF history = <<>> THEN <<>>
  ELSE InsertNewestFirst(SortNewestFirst(SubSeq(history, 1, Len(history) - 1)),
                         history[Len(history)])

\* the history array of the response
FullHistory(document) ==
  SortNewestFirst(<<CreationRecord(document)>> \o document.editHistory)

History(p, user, id) ==
  LET document == FindById(id)
      status   == HistoryStatus(document, user)
  IN  /\ Accept(p)
      /\ Respond(p, status, IF status = 200 THEN FullHistory(document) ELSE <<>>)
      /\ UNCHANGED <<docs, notifs, clock>>

StartHistory(p) == \E user \in Users, id \in DocIds : History(p, user, id)

(***************************************************************************)
(* DELETE /api/documents/:id                                               *)
(***************************************************************************)
\* the delete handler without its test of the author
MayDelete_Anyone(document, user) == TRUE

\* "Only author can delete"
MayDelete(document, user) == document.author = user

Delete(p, user, id) ==
  LET document == FindById(id)
  IN  /\ Accept(p)
      /\ IF document.id = 0 \/ document.isDeleted THEN Answer(p, 404)
         ELSE IF ~MayDelete(document, user) THEN Answer(p, 403)
         ELSE /\ Await(p, "delete_save",
                       [op |-> "delete", user |-> user, id |-> id], document, <<>>)
              /\ UNCHANGED todo
      /\ UNCHANGED <<docs, notifs, clock>>

StartDelete(p) == \E user \in Users, id \in DocIds : Delete(p, user, id)

\* document.isDeleted = true; document.save()
DeleteSave(p) ==
  /\ pc[p] = "delete_save"
  /\ docs' = [docs EXCEPT ![req[p].id].isDeleted = TRUE]
  /\ Answer(p, 200)
  /\ UNCHANGED <<notifs, clock, ops>>

(***************************************************************************)
(* POST /api/documents/:id/share                                           *)
(***************************************************************************)
\* lines 434-444 on the document in memory: the modification save() will send
ShareChange(document, userToShare, permission) ==
  LET i == FindShare(document.sharedWith, userToShare)
  IN  IF i # 0
        THEN IF document.sharedWith[i].permission = permission
               THEN [kind |-> "none"]
               ELSE [kind |-> "set", index |-> i, permission |-> permission]
        ELSE [kind |-> "push",
              grant |-> [user |-> userToShare, permission |-> permission]]

\* the document in memory after lines 434-444
ShareInMemory(document, change) ==
  CASE change.kind = "set" ->
         [document EXCEPT !.sharedWith[change.index].permission = change.permission]
    [] change.kind = "push" ->
         [document EXCEPT !.sharedWith = Append(@, change.grant)]
    [] OTHER -> document

\* checkDocumentAccess(id, user, "edit"), User.findOne({ email }) (the users
\* collection does not change), then the grant is set or pushed in memory
Share(p, user, id, email, permission) ==
  LET access      == checkDocumentAccess(id, user, "edit")
      userToShare == FindByEmail(email)
      change      == ShareChange(access.document, userToShare, permission)
  IN  /\ Accept(p)
      /\ IF ~access.hasAccess THEN Answer(p, 403)
         ELSE IF userToShare = NULL THEN Answer(p, 404)
         ELSE /\ Await(p, "share_save",
                       [op |-> "share", user |-> user, id |-> id,
                        email |-> email, permission |-> permission],
                       ShareInMemory(access.document, change), change)
              /\ UNCHANGED todo
      /\ UNCHANGED <<docs, notifs, clock>>

StartShare(p) ==
  \E user \in Users, id \in DocIds, email \in Emails, permission \in Permissions :
    Share(p, user, id, email, permission)

\* a share request of the first user, the author of document 1, for view
StartShareByAuthor(p) ==
  \E u \in Users : Share(p, UserSeq[1], 1, UserEmail(u), "view")

\* a share request with the email of any user
StartShareAny(p) ==
  \E user \in Users, id \in DocIds, u \in Users, permission \in Permissions :
    Share(p, user, id, UserEmail(u), permission)

\* document.save(): a pushed grant is appended to the stored array whatever
\* its version; a changed permission is written by position if the stored
\* version is the one read, and else save() throws VersionError
ShareSave(p) ==
  /\ pc[p] = "share_save"
  /\ LET id     == req[p].id
         change == pend[p]
     IN  CASE change.kind = "push" ->
                /\ docs' = [docs EXCEPT ![id].sharedWith = Append(@, change.grant),
                                        ![id].v = @ + 1]
                /\ Goto(p, "share_notify")
                /\ UNCHANGED <<snap, pend, todo>>
           [] change.kind = "set" ->
                IF docs[id].v = snap[p].v
                  THEN /\ docs' = [docs EXCEPT ![id].sharedWith[change.index].permission
                                                 = change.permission]
                       /\ Goto(p, "share_notify")
                       /\ UNCHANGED <<snap, pend, todo>>
                  ELSE /\ Answer(p, 500)
                       /\ UNCHANGED docs
           [] OTHER ->
                /\ Goto(p, "share_notify")
                /\ UNCHANGED <<docs, snap, pend, todo>>
  /\ UNCHANGED <<notifs, clock, ops>>

\* Notification.create, then Document.findById for the response; a failed
\* create is answered with 500
ShareNotify(p) ==
  /\ pc[p] = "share_notify"
  /\ \E created \in BOOLEAN :
       IF created
         THEN /\ notifs' = Append(notifs,
                     NewNotification(FindByEmail(req[p].email), req[p].user, "share",
                                     req[p].id, clock))
              /\ clock' = clock + 1
              /\ Answer(p, 200)
         ELSE /\ Answer(p, 500)
              /\ UNCHANGED <<notifs, clock>>
  /\ UNCHANGED <<docs, ops>>

(***************************************************************************)
(* DELETE /api/documents/:id/share/:userId                                 *)
(***************************************************************************)
\* document.sharedWith.filter(share => share.user.toString() !== userId)
FilterShares(sharedWith, userId) ==
  SelectSeq(sharedWith, LAMBDA share : share.user # userId)

Unshare(p, user, id, target) ==
  LET access == checkDocumentAccess(id, user, "edit")
  IN  /\ Accept(p)
      /\ IF ~access.hasAccess
           THEN Answer(p, 403)
           ELSE /\ Await(p, "unshare_save",
                         [op |-> "unshare", user |-> user, id |-> id,
                          target |-> target],
                         access.document,
                         FilterShares(access.document.sharedWith, target))
                /\ UNCHANGED todo
      /\ UNCHANGED <<docs, notifs, clock>>

StartUnshare(p) ==
  \E user \in Users, id \in DocIds, target \in Users : Unshare(p, user, id, target)

\* document.save(), then Document.findById for the response: an array equal
\* to the one read is not written; a changed array replaces the stored one if
\* the stored version is the one read, and else save() throws VersionError
UnshareSave(p) ==
  /\ pc[p] = "unshare_save"
  /\ LET id == req[p].id
     IN  IF pend[p] = snap[p].sharedWith
           THEN /\ Answer(p, 200)
                /\ UNCHANGED docs
           ELSE IF docs[id].v = snap[p].v
             THEN /\ docs' = [docs EXCEPT ![id].sharedWith = pend[p],
                                          ![id].v = @ + 1]
                  /\ Answer(p, 200)
             ELSE /\ Answer(p, 500)
                  /\ UNCHANGED docs
  /\ UNCHANGED <<notifs, clock, ops>>

(***************************************************************************)
(* GET /api/documents/:id                                                  *)
(***************************************************************************)
\* the handler with the test of the requester put before the test of the
\* visibility
GetBeforeCheck_AuthFirst(document, userId) ==
  IF document.id = 0 \/ document.isDeleted THEN 404
  ELSE IF userId = NULL THEN 401
  ELSE IF document.visibility = "public" THEN 200
  ELSE 0

\* the handler up to its call of checkDocumentAccess: the status it answers
\* with, 0 when it goes on to checkDocumentAccess
GetBeforeCheck(document, userId) ==
  IF document.id = 0 \/ document.isDeleted THEN 404
  ELSE IF document.visibility = "public" THEN 200
  ELSE IF userId = NULL THEN 401
  ELSE 0

Get(p, user, id) ==
  LET document == FindById(id)
      status   == GetBeforeCheck(document, user)
  IN  /\ Accept(p)
      /\ IF status # 0
           THEN Answer(p, status)
           ELSE /\ Await(p, "get_check", [op |-> "get", user |-> user, id |-> id],
                         document, <<>>)
                /\ UNCHANGED todo
      /\ UNCHANGED <<docs, notifs, clock>>

StartGet(p) == \E user \in Users \cup {NULL}, id \in DocIds : Get(p, user, id)

\* checkDocumentAccess(documentId, userId) reads the document again
GetCheck(p) ==
  /\ pc[p] = "get_check"
  /\ Answer(p, IF checkDocumentAccess(req[p].id, req[p].user, "view").hasAccess
                 THEN 200 ELSE 403)
  /\ UNCHANGED <<docs, notifs, clock, ops>>

(***************************************************************************)
(* Specifications                                                          *)
(***************************************************************************)
Next ==
  \E p \in Procs :
    \/ StartCreate(p)
    \/ StartCreateLookupFails(p)
    \/ CreateLoop(p)
    \/ CreateSave(p)
    \/ CreateSaveFails(p)
    \/ StartUpdate(p)
    \/ UpdateWrite(p)
    \/ StartHistory(p)
    \/ StartDelete(p)
    \/ DeleteSave(p)
    \/ StartShare(p)
    \/ ShareSave(p)
    \/ ShareNotify(p)
    \/ StartUnshare(p)
    \/ UnshareSave(p)
    \/ StartGet(p)
    \/ GetCheck(p)

\* requests served concurrently
Spec == Init /\ [][Next]_vars

\* requests served one after the other: a request is accepted when the
\* request before it has answered
SeqNext == Next /\ \A p \in Procs : p # 1 => pc'[p] = "idle"

SeqSpec == Init /\ [][SeqNext]_vars

\* one update request, with any body, on a stored document with any title,
\* content, visibility and tags
DiffInit ==
  /\ \E title \in Titles, content \in Contents, visibility \in Visibilities,
        tags \in TagLists :
       docs = <<NewDocument(1, title, content, UserSeq[1], visibility, tags, 1)>>
  /\ clock = 2
  /\ notifs = <<>>
  /\ ops = 0
  /\ pc = [p \in Procs |-> "idle"]
  /\ req = [p \in Procs |-> NoReq]
  /\ snap = [p \in Procs |-> NoDoc]
  /\ pend = [p \in Procs |-> <<>>]
  /\ todo = [p \in Procs |-> <<>>]
  /\ res = 0
  /\ out = <<>>

DiffNext ==
  \/ ops = 0 /\ StartUpdateAny(1)
  \/ UpdateWrite(1)

DiffSpec == DiffInit /\ [][DiffNext]_vars

\* the state after a POST /api/documents of the first user and one completed
\* POST /:id/share for each of the grants
SharedDocument(visibility, grants) ==
  [NewDocument(1, NewTitle, <<"h", "i">>, UserSeq[1], visibility, NewTags, 1)
     EXCEPT !.sharedWith = grants, !.v = Len(grants)]

\* update, share and unshare requests, served concurrently, on a private
\* document already shared with the second user, or with the second and the
\* third
SharedInit ==
  /\ \E p2 \in Permissions, p3 \in Permissions, n \in 1..2 :
       LET grants == SubSeq(<<[user |-> UserSeq[2], permission |-> p2],
                              [user |-> UserSeq[3], permission |-> p3]>>, 1, n)
       IN  /\ docs = <<SharedDocument("private", grants)>>
           /\ notifs = [i \in 1..n |->
                          NewNotification(grants[i].user, UserSeq[1], "share", 1, i + 1)]
           /\ clock = n + 2
  /\ ops = 0
  /\ pc = [p \in Procs |-> "idle"]
  /\ req = [p \in Procs |-> NoReq]
  /\ snap = [p \in Procs |-> NoDoc]
  /\ pend = [p \in Procs |-> <<>>]
  /\ todo = [p \in Procs |-> <<>>]
  /\ res = 0
  /\ out = <<>>

SharedNext ==
  \E p \in Procs :
    \/ StartUpdate(p)
    \/ UpdateWrite(p)
    \/ StartShareAny(p)
    \/ ShareSave(p)
    \/ ShareNotify(p)
    \/ StartUnshare(p)
    \/ UnshareSave(p)

SharedSpec == SharedInit /\ [][SharedNext]_vars

(***************************************************************************)
(* routes/notifications.js                                                 *)
(***************************************************************************)
\* const { page = 1, limit = 20, since } = req.query
NotificationsPage == 1

NotificationsLimit == 20

\* a parameter of the query string is a string; one that is left out takes
\* the default of the destructuring, a number
QueryString(n) == [type |-> "string", val |-> n]

QueryDefault(n) == [type |-> "number", val |-> n]

\* limit * 1, (page - 1) * limit: arithmetic converts a numeric string
ToNumber(q) == q.val

\* notifications.length === limit: a string is not strictly equal to a number
StrictEquals(n, q) == q.type = "number" /\ q.val = n

\* the since parameter: left out, or a timestamp (new Date(since))
NoSince == [given |-> FALSE, at |-> 0]

Since(t) == [given |-> TRUE, at |-> t]

Sinces == {NoSince, Since(2)}

Pages == {QueryDefault(NotificationsPage), QueryString(2)}

Limits == {QueryDefault(NotificationsLimit), QueryString(1)}

\* the ids of the notifications collection, and one that does not exist
NotifIds == 1..(Len(notifs) + 1)

\* a filter that names every recipient
Matches_AnyRecipient(n, recipient, since) ==
  since.given => n.createdAt > since.at

\* { recipient: req.user.id, createdAt: { $gt: new Date(since) } }, the
\* second part if since is given
Matches(n, recipient, since) ==
  /\ n.recipient = recipient
  /\ since.given => n.createdAt > since.at

\* the ids of the notifications the filter selects, in natural order
Find(recipient, since) ==
  SelectSeq([i \in DOMAIN notifs |-> i],
            LAMBDA i : Matches(notifs[i], recipient, since))

\* one step of the sort: id goes behind the ids of sorted whose createdAt is
\* not older than its own
InsertByCreatedAt(sorted, id) ==
  LET n == Cardinality({i \in DOMAIN sorted :
                          notifs[sorted[i]].createdAt >= notifs[id].createdAt})
  IN  SubSeq(sorted, 1, n) \o <<id>> \o SubSeq(sorted, n + 1, Len(sorted))

\* .sort({ createdAt: -1 })
RECURSIVE SortByCreatedAt(_)
SortByCreatedAt(ids) ==
  IF ids = <<>> THEN <<>>
  ELSE InsertByCreatedAt(SortByCreatedAt(SubSeq(ids, 1, Len(ids) - 1)), ids[Len(ids)])

\* .limit(limit).skip(skip): the query skips, then limits
SkipLimit(sorted, skip, limit) ==
  LET last == IF skip + limit < Len(sorted) THEN skip + limit ELSE Len(sorted)
  IN  IF skip >= Len(sorted) THEN <<>> ELSE SubSeq(sorted, skip + 1, last)

\* Notification.countDocuments({ recipient: req.user.id, isRead: false })
UnreadCount(recipient) ==
  Len(SelectSeq(notifs, LAMBDA n : n.recipient = recipient /\ ~n.isRead))

\* latestNotification?.createdAt || new Date()
LatestTimestamp(recipient) ==
  LET sorted == SortByCreatedAt(Find(recipient, NoSince))
  IN  IF sorted = <<>> THEN clock ELSE notifs[sorted[1]].createdAt

\* GET /api/notifications: Notification.find
List(p, user, since, page, limit) ==
  /\ Accept(p)
  /\ Await(p, "list_unread",
           [op |-> "list", user |-> user, id |-> 0, limit |-> limit,
            notifications |->
              SkipLimit(SortByCreatedAt(Find(user, since)),
                        (ToNumber(page) - 1) * ToNumber(limit), ToNumber(limit)),
            unreadCount |-> 0],
           NoDoc, <<>>)
  /\ UNCHANGED <<docs, notifs, clock, todo>>

StartList(p) ==
  \E user \in Users, since \in Sinces, page \in Pages, limit \in Limits :
    List(p, user, since, page, limit)

\* Notification.countDocuments of the unread
ListUnread(p) ==
  /\ pc[p] = "list_unread"
  /\ pc' = [pc EXCEPT ![p] = "list_latest"]
  /\ req' = [req EXCEPT ![p].unreadCount = UnreadCount(req[p].user)]
  /\ UNCHANGED <<docs, notifs, clock, ops, snap, pend, todo, res, out>>

\* Notification.findOne of the latest, then the response
ListLatest(p) ==
  /\ pc[p] = "list_latest"
  /\ Respond(p, 200,
             [notifications   |-> req[p].notifications,
              unreadCount     |-> req[p].unreadCount,
              latestTimestamp |-> LatestTimestamp(req[p].user),
              hasMore         |-> StrictEquals(Len(req[p].notifications), req[p].limit)])
  /\ UNCHANGED <<docs, notifs, clock, ops>>

\* GET /api/notifications/check: Notification.countDocuments(query)
Check(p, user, since) ==
  /\ Accept(p)
  /\ Await(p, "check_unread",
           [op |-> "check", user |-> user, id |-> 0, since |-> since,
            newCount |-> Len(Find(user, since)), unreadCount |-> 0],
           NoDoc, <<>>)
  /\ UNCHANGED <<docs, notifs, clock, todo>>

StartCheck(p) == \E user \in Users, since \in Sinces : Check(p, user, since)

\* Notification.countDocuments of the unread
CheckUnread(p) ==
  /\ pc[p] = "check_unread"
  /\ pc' = [pc EXCEPT ![p] = "check_latest"]
  /\ req' = [req EXCEPT ![p].unreadCount = UnreadCount(req[p].user)]
  /\ UNCHANGED <<docs, notifs, clock, ops, snap, pend, todo, res, out>>

\* Notification.findOne of the latest, then the response
CheckLatest(p) ==
  /\ pc[p] = "check_latest"
  /\ Respond(p, 200,
             [hasNewNotifications |-> req[p].newCount > 0,
              newCount            |-> req[p].newCount,
              unreadCount         |-> req[p].unreadCount,
              latestTimestamp     |-> LatestTimestamp(req[p].user)])
  /\ UNCHANGED <<docs, notifs, clock, ops>>

\* a lookup by id alone
FindOne_AnyRecipient(id, recipient) ==
  IF id \in DOMAIN notifs THEN id ELSE 0

\* Notification.findOne({ _id: req.params.id, recipient: req.user.id }): the
\* id found, or 0 for null
FindOne(id, recipient) ==
  IF id \in DOMAIN notifs /\ notifs[id].recipient = recipient THEN id ELSE 0

\* PUT /api/notifications/:id/read: the lookup, then isRead is set in memory
MarkRead(p, user, id) ==
  LET notification == FindOne(id, user)
  IN  /\ Accept(p)
      /\ IF notification = 0
           THEN Answer(p, 404)
           ELSE /\ Await(p, "read_save",
                         [op |-> "read", user |-> user, id |-> notification,
                          modified |-> ~notifs[notification].isRead],
                         NoDoc, <<>>)
                /\ UNCHANGED todo
      /\ UNCHANGED <<docs, notifs, clock>>

StartMarkRead(p) == \E user \in Users, id \in NotifIds : MarkRead(p, user, id)

\* notification.save(): isRead is written if the assignment changed it
MarkReadSave(p) ==
  /\ pc[p] = "read_save"
  /\ notifs' = IF req[p].modified
                 THEN [notifs EXCEPT ![req[p].id].isRead = TRUE]
                 ELSE notifs
  /\ Answer(p, 200)
  /\ UNCHANGED <<docs, clock, ops>>

\* PUT /api/notifications/read-all: Notification.updateMany
MarkAllRead(p, user) ==
  /\ Accept(p)
  /\ notifs' = [i \in DOMAIN notifs |->
                  IF notifs[i].recipient = user /\ ~notifs[i].isRead
                    THEN [notifs[i] EXCEPT !.isRead = TRUE]
                    ELSE notifs[i]]
  /\ Answer(p, 200)
  /\ UNCHANGED <<docs, clock>>

StartMarkAllRead(p) == \E user \in Users : MarkAllRead(p, user)

\* the longest run of share requests that the initial state has completed
MaxShared == 2

\* the second and the third user, in the order in which a run of completed
\* share requests first names them
RECURSIVE FirstShared(_)
FirstShared(run) ==
  IF run = <<>> THEN <<>>
  ELSE LET before == FirstShared(SubSeq(run, 1, Len(run) - 1))
           u      == run[Len(run)]
       IN  IF \E i \in DOMAIN before : before[i] = u THEN before
           ELSE Append(before, u)

\* the notification routes, served concurrently with share requests, on the
\* state after a POST /api/documents of the first user and a run of completed
\* POST /:id/share requests for the second and the third user
NotifInit ==
  /\ \E n \in 0..MaxShared : \E run \in [1..n -> {UserSeq[2], UserSeq[3]}] :
       LET first == FirstShared(run)
       IN  /\ docs = <<SharedDocument("private",
                         [i \in DOMAIN first |-> [user |-> first[i], permission |-> "view"]])>>
           /\ notifs = [i \in 1..n |-> NewNotification(run[i], UserSeq[1], "share", 1, i + 1)]
           /\ clock = n + 2
  /\ ops = 0
  /\ pc = [p \in Procs |-> "idle"]
  /\ req = [p \in Procs |-> NoReq]
  /\ snap = [p \in Procs |-> NoDoc]
  /\ pend = [p \in Procs |-> <<>>]
  /\ todo = [p \in Procs |-> <<>>]
  /\ res = 0
  /\ out = <<>>

NotifNext ==
  \E p \in Procs :
    \/ StartList(p)
    \/ ListUnread(p)
    \/ ListLatest(p)
    \/ StartCheck(p)
    \/ CheckUnread(p)
    \/ CheckLatest(p)
    \/ StartMarkRead(p)
    \/ MarkReadSave(p)
    \/ StartMarkAllRead(p)
    \/ StartShareByAuthor(p)
    \/ ShareSave(p)
    \/ ShareNotify(p)

NotifSpec == NotifInit /\ [][NotifNext]_vars

(***************************************************************************)
(* GET /api/documents                                                      *)
(***************************************************************************)
\* const { search, page = 1, limit = 10 } = req.query
DocumentsPage == 1

DocumentsLimit == 10

DocumentPages == {QueryDefault(DocumentsPage), QueryString(2)}

DocumentLimits == {QueryDefault(DocumentsLimit), QueryString(1)}

\* a filter without isDeleted
Listed_Deleted(document, userId) ==
  \/ document.author = userId
  \/ document.visibility = "public"
  \/ \E i \in DOMAIN document.sharedWith : document.sharedWith[i].user = userId

\* { isDeleted: false, $or: [{ author: userId }, { visibility: "public" },
\*   { "sharedWith.user": userId }] }; no search term is given
Listed(document, userId) ==
  /\ document.isDeleted = FALSE
  /\ \/ document.author = userId
     \/ document.visibility = "public"
     \/ \E i \in DOMAIN document.sharedWith : document.sharedWith[i].user = userId

\* the ids of the documents the filter selects, in natural order
FindDocuments(userId) ==
  SelectSeq([i \in DOMAIN docs |-> i], LAMBDA i : Listed(docs[i], userId))

\* one step of the sort: id goes behind the ids of sorted whose lastModified
\* is not older than its own
InsertByLastModified(sorted, id) ==
  LET n == Cardinality({i \in DOMAIN sorted :
                          docs[sorted[i]].lastModified >= docs[id].lastModified})
  IN  SubSeq(sorted, 1, n) \o <<id>> \o SubSeq(sorted, n + 1, Len(sorted))

\* .sort({ lastModified: -1 })
RECURSIVE SortByLastModified(_)
SortByLastModified(ids) ==
  IF ids = <<>> THEN <<>>
  ELSE InsertByLastModified(SortByLastModified(SubSeq(ids, 1, Len(ids) - 1)),
                            ids[Len(ids)])

\* Math.ceil(total / limit)
TotalPages(total, limit) == (total + ToNumber(limit) - 1) \div ToNumber(limit)

\* Document.find(query) with sort, limit and skip
ListDocuments(p, user, page, limit) ==
  /\ Accept(p)
  /\ Await(p, "list_count",
           [op |-> "documents", user |-> user, id |-> 0, page |-> page, limit |-> limit,
            documents |->
              SkipLimit(SortByLastModified(FindDocuments(user)),
                        (ToNumber(page) - 1) * ToNumber(limit), ToNumber(limit))],
           NoDoc, <<>>)
  /\ UNCHANGED <<docs, notifs, clock, todo>>

StartListDocuments(p) ==
  \E user \in Users, page \in DocumentPages, limit \in DocumentLimits :
    ListDocuments(p, user, page, limit)

\* Document.countDocuments(query), then the response
ListDocumentsCount(p) ==
  /\ pc[p] = "list_count"
  /\ LET total == Len(FindDocuments(req[p].user))
     IN  Respond(p, 200,
                 [documents   |-> req[p].documents,
                  totalPages  |-> TotalPages(total, req[p].limit),
                  currentPage |-> req[p].page,
                  total       |-> total])
  /\ UNCHANGED <<docs, notifs, clock, ops>>

\* the state after a POST /api/documents of the first and of the second user,
\* with or without a POST /1/share for the third user and a DELETE /2
ListInit ==
  /\ \E v1 \in Visibilities, v2 \in Visibilities, d2 \in BOOLEAN,
        g1 \in {<<>>, <<[user |-> UserSeq[3], permission |-> "view"]>>} :
       /\ docs = << [NewDocument(1, NewTitle, <<"h", "i">>, UserSeq[1], v1, NewTags, 1)
                       EXCEPT !.sharedWith = g1, !.v = Len(g1)],
                    [NewDocument(2, NewTitle, <<"h", "i">>, UserSeq[2], v2, NewTags, 2)
                       EXCEPT !.isDeleted = d2] >>
       /\ notifs = [i \in DOMAIN g1 |-> NewNotification(g1[i].user, UserSeq[1], "share", 1, 3)]
       /\ clock = 4
  /\ ops = 0
  /\ pc = [p \in Procs |-> "idle"]
  /\ req = [p \in Procs |-> NoReq]
  /\ snap = [p \in Procs |-> NoDoc]
  /\ pend = [p \in Procs |-> <<>>]
  /\ todo = [p \in Procs |-> <<>>]
  /\ res = 0
  /\ out = <<>>

\* the listing, served concurrently with delete and share requests
ListNext ==
  \E p \in Procs :
    \/ StartListDocuments(p)
    \/ ListDocumentsCount(p)
    \/ StartDelete(p)
    \/ DeleteSave(p)
    \/ StartShareByAuthor(p)
    \/ ShareSave(p)
    \/ ShareNotify(p)

ListSpec == ListInit /\ [][ListNext]_vars

(***************************************************************************)
(* Properties                                                              *)
(***************************************************************************)
\* the requesters of a read: the users and the anonymous caller
Requesters == Users \cup {NULL}

\* the documents that are not soft-deleted
Live == {id \in DOMAIN docs : ~docs[id].isDeleted}

\* checkDocumentAccess grants requester r permission on document id
Granted(id, r, permission) == checkDocumentAccess(id, r, permission).hasAccess

\* GET /:id returns document id to requester r
Viewable(id, r) ==
  LET status == GetBeforeCheck(FindById(id), r)
  IN  status = 200 \/ (status = 0 /\ Granted(id, r, "view"))

\* the users that hold a grant of permission in sharedWith
Holders(sharedWith, permission) ==
  {sharedWith[i].user : i \in {j \in DOMAIN sharedWith :
                                 sharedWith[j].permission = permission}}

\* the users that hold any grant in sharedWith
Grantees(sharedWith) == {sharedWith[i].user : i \in DOMAIN sharedWith}

\* C1 as stated: for every stored document, checkDocumentAccess grants the
\* author both view and edit with effective permission edit, whatever the
\* visibility and sharedWith. (Fails for a soft-deleted document.)
C1_AuthorGrantedAlways ==
  \A id \in DOMAIN docs, permission \in Permissions :
    LET access == checkDocumentAccess(id, docs[id].author, permission)
    IN  access.hasAccess /\ access.permission = "edit"

\* C1 amended: for every document that is not soft-deleted,
\* checkDocumentAccess grants the author both view and edit with effective
\* permission edit, whatever the visibility and sharedWith.
C1_AuthorGrantedUnlessDeleted ==
  \A id \in Live, permission \in Permissions :
    LET access == checkDocumentAccess(id, docs[id].author, permission)
    IN  access.hasAccess /\ access.permission = "edit"

\* C1 witness: a live private document whose sharedWith is not empty
C1_Witness ==
  \E id \in Live : docs[id].visibility = "private" /\ docs[id].sharedWith # <<>>

\* C2: for every private document that is not soft-deleted, a requester
\* (anonymous included) that is neither the author nor in sharedWith is
\* granted neither view nor edit, and GET /:id does not return the document.
C2_PrivateDeniedToStrangers ==
  \A id \in Live :
    docs[id].visibility = "private" =>
      \A r \in Requesters \ ({docs[id].author} \cup Grantees(docs[id].sharedWith)) :
        /\ ~Granted(id, r, "view")
        /\ ~Granted(id, r, "edit")
        /\ ~Viewable(id, r)

\* C2 witness: a live private document shared with one user and not with
\* another, who is not its author
C2_Witness ==
  \E id \in Live :
    /\ docs[id].visibility = "private"
    /\ docs[id].sharedWith # <<>>
    /\ Users \ ({docs[id].author} \cup Grantees(docs[id].sharedWith)) # {}

\* C3 as stated: every public document is viewable by every requester
\* (anonymous included), and edit is granted on it only to the author and to
\* the holders of an edit grant. (Fails for a soft-deleted document.)
C3_PublicViewForAll ==
  \A id \in DOMAIN docs :
    docs[id].visibility = "public" =>
      /\ \A r \in Requesters : Viewable(id, r)
      /\ \A u \in Users : Granted(id, u, "view")
      /\ \A r \in Requesters :
           Granted(id, r, "edit") =>
             r \in {docs[id].author} \cup Holders(docs[id].sharedWith, "edit")

\* C3 amended: every public document that is not soft-deleted is viewable by
\* every requester (anonymous included), and edit is granted on it only to
\* the author and to the holders of an edit grant.
C3_LivePublicViewForAll ==
  \A id \in Live :
    docs[id].visibility = "public" =>
      /\ \A r \in Requesters : Viewable(id, r)
      /\ \A u \in Users : Granted(id, u, "view")
      /\ \A r \in Requesters :
           Granted(id, r, "edit") =>
             r \in {docs[id].author} \cup Holders(docs[id].sharedWith, "edit")

\* C3 witness: a live public document on which some user holds a view grant
\* only, and some user holds no grant
C3_Witness ==
  \E id \in Live :
    /\ docs[id].visibility = "public"
    /\ Holders(docs[id].sharedWith, "view")
         \ ({docs[id].author} \cup Holders(docs[id].sharedWith, "edit")) # {}
    /\ Users \ ({docs[id].author} \cup Grantees(docs[id].sharedWith)) # {}

\* C4 as stated: in every reachable state no document's author appears as a
\* user of its sharedWith. (Fails: POST /:id/share does not compare the user it
\* shares with to the author.)
C4_AuthorNeverShared ==
  \A id \in DOMAIN docs : docs[id].author \notin Grantees(docs[id].sharedWith)

\* C5 as stated: in every reachable state, concurrent share requests
\* included, sharedWith holds at most one entry per user. (Fails: two
\* requests that both read the array without the user both push an entry.)
C5_OneEntryPerUser ==
  \A id \in DOMAIN docs :
    \A i, j \in DOMAIN docs[id].sharedWith :
      docs[id].sharedWith[i].user = docs[id].sharedWith[j].user => i = j

\* C6 as stated: an update never silently overwrites a change made since it
\* read the document: when findByIdAndUpdate writes a field, the stored value
\* of the field is still the one the request read. (Fails: the write carries
\* no version check.)
C6_NoSilentOverwrite ==
  [][\A p \in Procs :
       UpdateWrite(p) =>
         \A f \in DOMAIN pend[p].set : docs[req[p].id][f] = snap[p][f]]_vars

\* the fields C7 names
FrozenFields == {"title", "content", "visibility", "tags", "sharedWith", "editHistory"}

\* C7 as stated: once a document has isDeleted = true, no step of any request
\* changes its title, content, visibility, tags, sharedWith or editHistory.
\* (Fails: a request that read the document before the delete writes after
\* it.)
C7_DeletedIsFrozen ==
  [][\A id \in DOMAIN docs :
       docs[id].isDeleted => \A f \in FrozenFields : docs'[id][f] = docs[id][f]]_vars

\* C8: no document is ever removed from the store and isDeleted never
\* returns to false; isDeleted becomes true only by the save of a delete
\* request made by the author; a delete request by another user is answered
\* with a failure at once and changes no document.
C8_SoftDeleteByAuthorOnly ==
  [][\A id \in DOMAIN docs :
       /\ id \in DOMAIN docs'
       /\ docs[id].isDeleted => docs'[id].isDeleted
       /\ (~docs[id].isDeleted /\ docs'[id].isDeleted) =>
            \E p \in Procs :
              /\ DeleteSave(p)
              /\ req[p].op = "delete"
              /\ req[p].id = id
              /\ req[p].user = docs[id].author
       /\ \A p \in Procs, user \in Users \ {docs[id].author} :
            Delete(p, user, id) =>
              /\ res' \in {403, 404}
              /\ pc'[p] = "idle"
              /\ docs' = docs]_vars

\* C8 witness: a document soft-deleted by a delete request answered with 200
C8_Witness ==
  \E id \in DOMAIN docs : docs[id].isDeleted /\ res = 200 /\ \A p \in Procs : pc[p] = "idle"

\* C9 as stated: every request on a soft-deleted document is answered with
\* 404, whoever makes it. (Fails: update, share and unshare answer 403.)
C9_DeletedIsNotFound ==
  [][\A p \in Procs, id \in DOMAIN docs :
       docs[id].isDeleted =>
         /\ \A r \in Requesters : Get(p, r, id) => res' = 404
         /\ \A u \in Users :
              /\ History(p, u, id) => res' = 404
              /\ Delete(p, u, id) => res' = 404
              /\ \A body \in UpdateBodies : Update(p, u, id, body) => res' = 404
              /\ \A email \in Emails, permission \in Permissions :
                   Share(p, u, id, email, permission) => res' = 404
              /\ \A target \in Users : Unshare(p, u, id, target) => res' = 404]_vars

\* C10 as stated: when a share request that pushed a grant {u, p} on a
\* private document (u had no grant) is answered with 200, sharedWith holds
\* exactly one entry of u, with permission p, exactly one notification has
\* been created, of type share for u, and then u is granted view, and edit
\* iff p = edit. (Fails for u = the author, whom the handler accepts: C4.)
C10_ShareGrants ==
  [][\A p \in Procs, id \in DOMAIN docs, u \in Users, permission \in Permissions :
       ( /\ ShareNotify(p)
         /\ res' = 200
         /\ req[p].id = id
         /\ req[p].permission = permission
         /\ pend[p] = [kind |-> "push", grant |-> [user |-> u, permission |-> permission]]
         /\ docs[id].visibility = "private" ) =>
         LET entries == {i \in DOMAIN docs'[id].sharedWith :
                           docs'[id].sharedWith[i].user = u}
         IN  /\ Cardinality(entries) = 1
             /\ \A i \in entries : docs'[id].sharedWith[i].permission = permission
             /\ Len(notifs') = Len(notifs) + 1
             /\ notifs'[Len(notifs')].type = "share"
             /\ notifs'[Len(notifs')].recipient = u
             /\ notifs'[Len(notifs')].document = id
             /\ Granted(id, u, "view")'
             /\ Granted(id, u, "edit")' <=> (permission = "edit")]_vars

\* the entries of user u in sharedWith, in order
EntriesOf(sharedWith, u) == SelectSeq(sharedWith, LAMBDA share : share.user = u)

\* the notifications of the given type about document id addressed to u
NotifsFor(all, type, id, u) ==
  SelectSeq(all, LAMBDA n : n.type = type /\ n.document = id /\ n.recipient = u)

\* the users the code resolves from the mention tokens of content
Resolved(content) ==
  LET mentionedUsers == MentionedUsers(extractMentions(content))
  IN  {mentionedUsers[i] : i \in DOMAIN mentionedUsers}

\* C11 as stated: a share request that finds the grant it asks for (the same
\* user with the same permission, left by an earlier application whose share
\* notification exists) leaves sharedWith unchanged and creates no further
\* notification. (Fails: Notification.create is called also when nothing was
\* granted.)
C11_ShareIdempotent ==
  [][\A p \in Procs :
       ( /\ ShareNotify(p)
         /\ pend[p].kind = "none"
         /\ NotifsFor(notifs, "share", req[p].id, FindByEmail(req[p].email)) # <<>> ) =>
         /\ docs'[req[p].id].sharedWith = docs[req[p].id].sharedWith
         /\ notifs' = notifs]_vars

\* C12 as stated: when a create or an update has persisted content with
\* mention tokens, every user resolved from the tokens other than the acting
\* user that was not in sharedWith holds one view grant and has been sent a
\* mention notification (one per user, unless its creation failed: C14), and
\* the acting user gets neither. (Fails: PUT /:id does not look for mentions.)
C12_MentionsShared ==
  [][\A p \in Procs :
       /\ CreateSave(p) =>
            LET id    == req[p].id
                actor == req[p].user
            IN  /\ \A u \in Resolved(snap[p].content) \ {actor} :
                     EntriesOf(docs[id].sharedWith, u) = <<>> =>
                       /\ EntriesOf(docs'[id].sharedWith, u)
                            = <<[user |-> u, permission |-> "view"]>>
                       /\ Len(NotifsFor(notifs', "mention", id, u)) <= 1
                /\ EntriesOf(docs'[id].sharedWith, actor) = <<>>
                /\ NotifsFor(notifs', "mention", id, actor) = <<>>
       /\ (UpdateWrite(p) /\ "content" \in DOMAIN pend[p].set) =>
            LET id    == req[p].id
                actor == req[p].user
            IN  \A u \in Resolved(pend[p].set.content) \ {actor} :
                  EntriesOf(docs[id].sharedWith, u) = <<>> =>
                    /\ EntriesOf(docs'[id].sharedWith, u)
                         = <<[user |-> u, permission |-> "view"]>>
                    /\ Len(NotifsFor(notifs', "mention", id, u)) = 1]_vars

\* C13 as stated: the auto-share of the mentioned users adds no grant for a
\* user that is already in sharedWith and leaves the grant that user holds as
\* it is. (Fails: the loop pushes a view grant without looking the user up in
\* sharedWith, so a user shared with since Document.create gets a second
\* entry.)
C13_AutoShareIdempotent ==
  [][\A p \in Procs :
       CreateSave(p) =>
         \A u \in Users :
           EntriesOf(docs[req[p].id].sharedWith, u) # <<>> =>
             EntriesOf(docs'[req[p].id].sharedWith, u)
               = EntriesOf(docs[req[p].id].sharedWith, u)]_vars

\* C14: when Notification.create fails for a mentioned user, the create
\* request goes on (it does not answer), that user's view grant is among the
\* grants to save, and the remaining mentioned users are still to be
\* processed; the save then writes every grant and the request answers 201.
C14_NotifyFailureTolerated ==
  [][\A p \in Procs :
       /\ CreateIteration(p, FALSE) =>
            /\ pc'[p] = (IF Tail(todo[p]) = <<>> THEN "create_save" ELSE "create_loop")
            /\ res' = res
            /\ todo'[p] = Tail(todo[p])
            /\ notifs' = notifs
            /\ Head(todo[p]) # req[p].user =>
                 pend'[p] = Append(pend[p], [user |-> Head(todo[p]), permission |-> "view"])
       /\ CreateSave(p) =>
            /\ res' = 201
            /\ \A i \in DOMAIN pend[p] :
                 EntriesOf(docs'[req[p].id].sharedWith, pend[p][i].user) # <<>>]_vars

\* C14 witness: a create answered with 201 whose document is shared with two
\* mentioned users, the first of whom has no notification (its creation
\* failed) and the second of whom has one
C14_Witness ==
  /\ res = 201
  /\ \A p \in Procs : pc[p] = "idle"
  /\ \E id \in DOMAIN docs :
       /\ Len(docs[id].sharedWith) = 2
       /\ NotifsFor(notifs, "mention", id, docs[id].sharedWith[1].user) = <<>>
       /\ NotifsFor(notifs, "mention", id, docs[id].sharedWith[2].user) # <<>>

\* C15 as stated: a request answered with 500 because a store call failed
\* leaves nothing of itself in the store: a share whose notification failed
\* leaves the grant as it was, a create whose user lookup or save failed
\* leaves no document. (Fails: the grant and the document are written before
\* the call that fails.)
C15_NoPartialState ==
  [][\A p \in Procs :
       /\ (ShareNotify(p) /\ res' = 500 /\ pend[p].kind = "push") =>
            EntriesOf(docs'[req[p].id].sharedWith, pend[p].grant.user) = <<>>
       /\ (ShareNotify(p) /\ res' = 500 /\ pend[p].kind = "set") =>
            docs'[req[p].id].sharedWith[pend[p].index].permission # pend[p].permission
       /\ CreateSaveFails(p) => req[p].id \notin DOMAIN docs'
       /\ \A user \in Users, content \in Contents, visibility \in Visibilities :
            CreateLookupFails(p, user, content, visibility) => docs' = docs]_vars

\* the first word of a display name
FirstWord(name) == FirstPart(name)

\* token is a prefix of word, case ignored
IsPrefix(token, word) ==
  /\ Len(token) <= Len(word)
  /\ \A k \in 1..Len(token) : Lower(word[k]) = Lower(token[k])

\* the users whose name's first word starts with one of the tokens
PrefixResolved(tokens) ==
  {u \in Users : \E i \in DOMAIN tokens : IsPrefix(tokens[i], FirstWord(UserName(u)))}

\* C16 as stated: the users a create request resolves from the mention tokens
\* of its content are exactly those whose name's first word starts with a
\* token, case ignored. (Fails: the regular expression is not anchored, so a
\* token found anywhere in a name resolves the user.)
C16_PrefixOfFirstWord ==
  [][\A p \in Procs, user \in Users, content \in Contents, visibility \in Visibilities :
       Create(p, user, NewTitle, content, visibility, NewTags) =>
         {todo'[p][i] : i \in DOMAIN todo'[p]} = PrefixResolved(extractMentions(content))]_vars

\* the change mapping of the history entry an update is about to push: empty
\* when it pushes none
ChangesOf(updateData) ==
  IF updateData.push = <<>> THEN <<>> ELSE updateData.push[1].changes

\* C17: the change mapping an authorized update records holds exactly the
\* fields among title, content, visibility and tags that the body defines
\* with a value other than the document's (tags compared as sequences); each
\* maps to its new value, content to the marker "Content updated".
C17_ChangeMapping ==
  [][\A p \in Procs, user \in Users, id \in DOMAIN docs, body \in AllBodies :
       (Update(p, user, id, body) /\ pc'[p] = "update_write") =>
         LET changes == ChangesOf(pend'[p])
         IN  /\ DOMAIN changes \subseteq UpdateFields
             /\ \A f \in UpdateFields :
                  /\ f \in DOMAIN changes <=> (f \in DOMAIN body /\ body[f] # docs[id][f])
                  /\ f \in DOMAIN changes =>
                       changes[f] = (IF f = "content" THEN "Content updated" ELSE body[f])]_vars

\* C17 witness: an update about to record a change of content, by its marker,
\* and of the tags, and of nothing else
C17_Witness ==
  \E p \in Procs :
    /\ pc[p] = "update_write"
    /\ DOMAIN ChangesOf(pend[p]) = {"content", "tags"}
    /\ ChangesOf(pend[p]).content = "Content updated"
    /\ ChangesOf(pend[p]).tags = <<"x">>

\* C18 as stated: the write of an authorized update with an empty change
\* mapping changes nothing of the document; with a non-empty mapping it
\* appends exactly one entry {user: the requester, action: update, changes:
\* the mapping, timestamp: now} to editHistory and sets lastModified to now.
\* (Fails: updateData carries no lastModified.)
C18_HistoryAndLastModified ==
  [][\A p \in Procs :
       UpdateWrite(p) =>
         LET id   == req[p].id
             push == pend[p].push
         IN  IF push = <<>>
               THEN docs' = docs
               ELSE /\ docs'[id].editHistory
                         = Append(docs[id].editHistory,
                                  [user |-> req[p].user, action |-> "update",
                                   changes |-> ChangesOf(pend[p]),
                                   timestamp |-> push[1].timestamp])
                    /\ docs'[id].lastModified = push[1].timestamp]_vars

\* C19: in every step the editHistory of every document is extended at its
\* end or left as it is, and the write of an update that changed the document
\* appends that update's own entry, whatever was written since it read.
C19_HistoryAppendOnly ==
  [][/\ \A id \in DOMAIN docs :
          /\ id \in DOMAIN docs'
          /\ Len(docs[id].editHistory) <= Len(docs'[id].editHistory)
          /\ SubSeq(docs'[id].editHistory, 1, Len(docs[id].editHistory))
               = docs[id].editHistory
     /\ \A p \in Procs :
          (UpdateWrite(p) /\ pend[p].push # <<>>) =>
            docs'[req[p].id].editHistory = docs[req[p].id].editHistory \o pend[p].push]_vars

\* C19 witness: two entries that record the same change, left by two updates
\* that both read the document before either wrote
C19_Witness ==
  \E id \in DOMAIN docs :
    /\ Len(docs[id].editHistory) = 2
    /\ docs[id].editHistory[1].changes = docs[id].editHistory[2].changes

\* the visibility a document was created with: the one its first recorded
\* change of visibility replaced, the current one when none is recorded
InitialVisibility(document) ==
  LET changed == {i \in DOMAIN document.editHistory :
                    "visibility" \in DOMAIN document.editHistory[i].changes}
  IN  IF changed = {} THEN document.visibility
      ELSE LET first == CHOOSE i \in changed : \A j \in changed : i <= j
           IN  CHOOSE v \in Visibilities : v # document.editHistory[first].changes.visibility

\* C20 as stated: the history returned to the author of a live document is
\* sorted by timestamp, newest first; it ends with the one create entry, whose
\* timestamp is createdAt and whose changes are the title, visibility and tags
\* the document was created with; before it come the stored entries. (Fails:
\* the create entry is built from the current title, visibility and tags.)
C20_HistoryWithCreateEntry ==
  [][\A p \in Procs, user \in Users, id \in DOMAIN docs :
       (History(p, user, id) /\ res' = 200) =>
         LET n == Len(docs[id].editHistory)
         IN  /\ Len(out') = n + 1
             /\ \A i \in 1..n : out'[i].timestamp >= out'[i + 1].timestamp
             /\ \A i \in 1..n : out'[i] = docs[id].editHistory[n + 1 - i]
             /\ out'[n + 1].user = docs[id].author
             /\ out'[n + 1].action = "create"
             /\ out'[n + 1].timestamp = docs[id].createdAt
             /\ out'[n + 1].changes.title = NewTitle
             /\ out'[n + 1].changes.visibility = InitialVisibility(docs[id])
             /\ out'[n + 1].changes.tags = NewTags]_vars

\* the fields C21 names
GuardedFields == {"title", "content", "visibility", "tags", "sharedWith"}

\* C21 as stated: a step that changes the title, content, visibility, tags or
\* sharedWith of a document is the write of an update, share or unshare
\* request whose requester is, in the state the write is made in, the author
\* or the holder of an edit grant. (Fails: the requester is checked when the
\* document is read and not when it is written, so a request whose edit grant
\* was removed in between still writes.)
C21_WritesByEditorsOnly ==
  [][\A id \in DOMAIN docs :
       (\E f \in GuardedFields : docs'[id][f] # docs[id][f]) =>
         \E p \in Procs :
           /\ pc[p] \in {"update_write", "share_save", "unshare_save"}
           /\ pc'[p] # pc[p]
           /\ req[p].id = id
           /\ \/ req[p].user = docs[id].author
              \/ req[p].user \in Holders(docs[id].sharedWith, "edit")]_vars

\* C26 as stated: the save of a share or of an unshare that succeeds leaves
\* the grants of every user other than its own target as they are stored, so
\* no grant written by another share is lost by it. (Fails: an unshare writes
\* the array it read, filtered, over a permission changed since.)
C26_NoGrantLost ==
  [][\A p \in Procs, id \in DOMAIN docs :
       /\ (UnshareSave(p) /\ req[p].id = id /\ res' = 200) =>
            \A u \in Users \ {req[p].target} :
              EntriesOf(docs'[id].sharedWith, u) = EntriesOf(docs[id].sharedWith, u)
       /\ (ShareSave(p) /\ req[p].id = id /\ pc'[p] = "share_notify") =>
            \A u \in Users \ {FindByEmail(req[p].email)} :
              EntriesOf(docs'[id].sharedWith, u) = EntriesOf(docs[id].sharedWith, u)]_vars

\* C25: a GET /:id of a live document answers at once with the document if
\* it is public, whoever asks, and with 401 if it is private and the requester
\* anonymous; otherwise it goes on to the access check, which, on a document
\* still live, answers with the document if the requester is the author or in
\* sharedWith (or the document has become public) and with 403 if not.
C25_GetOutcomes ==
  [][\A p \in Procs :
       /\ \A r \in Requesters, id \in Live :
            Get(p, r, id) =>
              IF docs[id].visibility = "public" THEN res' = 200 /\ pc'[p] = "idle"
              ELSE IF r = NULL THEN res' = 401 /\ pc'[p] = "idle"
              ELSE pc'[p] = "get_check" /\ res' = res
       /\ (GetCheck(p) /\ req[p].id \in Live) =>
            LET document == docs[req[p].id]
            IN  res' = (IF \/ req[p].user = document.author
                           \/ req[p].user \in Grantees(document.sharedWith)
                           \/ document.visibility = "public"
                          THEN 200 ELSE 403)]_vars

\* C25 witness: an anonymous request for a live private document that is
\* shared with some user has been answered with 401
C25_Witness ==
  /\ res = 401
  /\ \E id \in Live : docs[id].visibility = "private" /\ docs[id].sharedWith # <<>>

\* C27 as stated, for a user u other than the author (whom the access check
\* grants whatever sharedWith holds): the save of an unshare of u on a private
\* document, answered with 200, leaves the entries of every other user, every
\* other field and the notifications as they are; and, when sharedWith is
\* still as the request read it, it leaves no entry of u and u denied view and
\* edit, and changes nothing when u held no grant. (Fails: the save writes the
\* array the request read, filtered, over a permission changed since: C26.)
C27_UnshareRevokes ==
  [][\A p \in Procs, id \in DOMAIN docs, u \in Users :
       ( /\ UnshareSave(p)
         /\ res' = 200
         /\ req[p].id = id
         /\ req[p].target = u
         /\ u # docs[id].author
         /\ docs[id].visibility = "private" ) =>
         /\ \A w \in Users \ {u} :
              EntriesOf(docs'[id].sharedWith, w) = EntriesOf(docs[id].sharedWith, w)
         /\ \A f \in DOMAIN docs[id] \ {"sharedWith", "v"} : docs'[id][f] = docs[id][f]
         /\ notifs' = notifs
         /\ docs[id].sharedWith = snap[p].sharedWith =>
              /\ EntriesOf(docs'[id].sharedWith, u) = <<>>
              /\ ~Granted(id, u, "view")'
              /\ ~Granted(id, u, "edit")'
              /\ EntriesOf(docs[id].sharedWith, u) = <<>> => docs' = docs]_vars

\* the notifications of recipient u, by id
NotificationsOf(u) == {i \in DOMAIN notifs : notifs[i].recipient = u}

\* the number of unread notifications of recipient u
Unread(u) == Cardinality({i \in NotificationsOf(u) : ~notifs[i].isRead})

\* C22: a mark-read or mark-all-read request of user u changes no
\* notification of another recipient; marking a notification of another
\* recipient, like marking an id that does not exist, is answered 404 and
\* changes nothing; after mark-all-read of u the unread count of u is 0 and
\* that of every other user is what it was
C22_MarkReadOwnOnly ==
  [][\A p \in Procs, u \in Users :
       /\ ( \/ MarkReadSave(p) /\ req[p].user = u
            \/ MarkAllRead(p, u)
            \/ \E id \in NotifIds : MarkRead(p, u, id) ) =>
            /\ Len(notifs') = Len(notifs)
            /\ \A i \in DOMAIN notifs :
                 notifs[i].recipient # u => notifs'[i] = notifs[i]
       /\ \A id \in NotifIds :
            ( /\ MarkRead(p, u, id)
              /\ id \notin NotificationsOf(u) ) =>
              /\ res' = 404
              /\ pc'[p] = "idle"
              /\ notifs' = notifs
       /\ MarkAllRead(p, u) =>
            /\ Unread(u)' = 0
            /\ \A w \in Users \ {u} : Unread(w)' = Unread(w)]_vars

\* a request was answered 200 while some user has notifications, all of them
\* read, and another user has an unread one
C22_Witness ==
  /\ res = 200
  /\ \E u \in Users :
       /\ NotificationsOf(u) # {}
       /\ Unread(u) = 0
       /\ \E w \in Users \ {u} : Unread(w) > 0

\* the notifications of recipient u created after since, by id
NewerThan(u, since) ==
  {i \in NotificationsOf(u) : since.given => notifs[i].createdAt > since.at}

\* the createdAt of the most recent notification of recipient u, and the
\* current time if u has none
MostRecent(u) ==
  IF NotificationsOf(u) = {} THEN clock
  ELSE CHOOSE t \in {notifs[i].createdAt : i \in NotificationsOf(u)} :
         \A i \in NotificationsOf(u) : notifs[i].createdAt <= t

\* C23: the poll counts the notifications of the recipient created after t
\* and no others; hasNew is true iff newCount > 0; when the recipient has no
\* notification after t the answer is hasNew = false, newCount = 0; and
\* latestTimestamp is the createdAt of the recipient's most recent
\* notification, or the current time if there is none
C23_PollSince ==
  [][\A p \in Procs, u \in Users :
       /\ \A since \in Sinces :
            Check(p, u, since) =>
              req'[p].newCount = Cardinality(NewerThan(u, since))
       /\ (CheckLatest(p) /\ req[p].user = u) =>
            /\ res' = 200
            /\ out'.newCount = req[p].newCount
            /\ out'.hasNewNotifications = (out'.newCount > 0)
            /\ out'.latestTimestamp = MostRecent(u)
            /\ NewerThan(u, req[p].since) = {} =>
                 /\ out'.newCount = 0
                 /\ out'.hasNewNotifications = FALSE]_vars

\* a poll answered hasNew = false, newCount = 0 and the createdAt of an
\* existing notification
C23_Witness ==
  /\ res = 200
  /\ "newCount" \in DOMAIN out
  /\ out.newCount = 0
  /\ ~out.hasNewNotifications
  /\ \E i \in DOMAIN notifs : notifs[i].createdAt = out.latestTimestamp

\* C24: the list holds notifications of the recipient only, newest first, and
\* hasMore is true iff the list is exactly as long as the page size
C24_ListNewestFirst ==
  [][\A p \in Procs :
       ListLatest(p) =>
         LET items == out'.notifications
         IN  /\ \A i \in DOMAIN items : items[i] \in NotificationsOf(req[p].user)
             /\ \A i \in DOMAIN items, j \in DOMAIN items :
                  i < j => notifs[items[i]].createdAt >= notifs[items[j]].createdAt
             /\ out'.hasMore <=> (Len(items) = ToNumber(req[p].limit))]_vars

\* the documents for which the access check grants user u view
ViewableBy(u) == {id \in DOMAIN docs : Granted(id, u, "view")}

====
